---- MODULE Spec2Model ----
(***************************************************************************)
(* BinanceBot: the trading loop (Handler.main, Handler.task_checking_prices),*)
(* the price feed (DataLoader.load_data), the REST client                   *)
(* (ApiBinance.create_order, ApiBinance.get_balance) and the process entry  *)
(* (Handler.start), as the two asyncio tasks they run in.                   *)
(*                                                                         *)
(* Time is counted in poll ticks of 0.2 s (asyncio.sleep(0.2), main.py:61). *)
(* A coroutine runs atomically from one await to the next, so every action  *)
(* is the code between two awaits of one task.                              *)
(*                                                                         *)
(* Prices are whole numbers of price units.  A Decimal that went through a  *)
(* binary float is a record [num, den, eps]: the value num/den + eps*e for  *)
(* an e > 0 far smaller than a price unit (the float's representation       *)
(* error, about 1e-17 of the ratio).                                        *)
(*                                                                         *)
(* Spec is the program on the first catalog instrument, InstrumentSpec the  *)
(* program on each instrument of the catalog, ApiSpec the two ApiBinance    *)
(* calls under any arguments.                                               *)
(***************************************************************************)
EXTENDS Integers, Sequences, FiniteSets, TLC

\* ------------------------------------------------------------------ bounds
MaxPrice == 6          \* prices on the feed and in fills: 1..MaxPrice
MaxDuration == 1       \* config.duration, in seconds: 1..MaxDuration
MaxWait == 1           \* config.waiting_next_purchase, in seconds: 1..MaxWait
MaxBackoffs == 2       \* the backoff counter saturates here
MaxStamp == 2          \* request timestamps: 1..MaxStamp

\* ------------------------------------------------------- program constants
TicksPerSecond == 5    \* one poll tick is asyncio.sleep(0.2)
StartupSeconds == 5    \* asyncio.sleep(5)
BackoffSeconds == 2    \* asyncio.sleep(2)
MantissaBits == 53     \* Python float: IEEE-754 binary64

Prices == 1..MaxPrice
\* sales_ratio as written in the environment, a decimal fraction num/den:
\* "0.5" and "0.2".
RatioStrings == {<<5, 10>>, <<2, 10>>}

\* Handler.data_currency, the catalog the instrument is chosen from.
data_currency ==
    [i \in {"1", "2", "3"} |->
        CASE i = "1" -> [name |-> "btcusdt@ticker", symbol |-> "BTCUSDT",
                         asset |-> "BTC"]
          [] i = "2" -> [name |-> "ethusdt@ticker", symbol |-> "ETHUSDT",
                         asset |-> "ETH"]
          [] i = "3" -> [name |-> "solusdt@ticker", symbol |-> "SOLUSDT",
                         asset |-> "SOL"]]

VARIABLES
    config,          \* Config: sales_ratio, duration, waiting_next_purchase
    price_currency,  \* Config.price_currency: IntZero, or a dict
    main_pc,         \* position of the trading loop task
    main_exc,        \* the exception the trading loop ended with ("" = none)
    mainTimer,       \* ticks left of the trading loop's current sleep
    elapsed,         \* ticks since start_timestamp (saturating)
    order_price,     \* fills[0].price of the order being confirmed
    purchase_price,  \* what create_order(BUY) returned (0: nothing, or zero)
    sells,           \* SELL orders issued in the current cycle
    read,            \* the current cycle read price_currency
    updated,         \* the feed wrote price_currency during the current cycle
    feed_pc,         \* position of the feed task
    feedTimer,       \* ticks left of the feed's backoff sleep
    connects,        \* connections opened (saturating)
    subscribes,      \* subscribe messages sent (saturating)
    closes,          \* ConnectionClosed caught (saturating)
    backoffs,        \* backoff sleeps completed (saturating)
    start_pc,        \* Handler.start: "await_load" or "exited"
    currency,        \* the instrument chosen in Handler.start
    last_ticker,     \* the last message received that had the keys s and c
    fresh,           \* the feed wrote price_currency since the BUY returned
    buy_order,       \* symbol, type, quantity of the cycle's BUY order
    sell_order,      \* symbol, type, quantity of the cycle's SELL order
    sell_cause,      \* while the SELL is posted: "deadline" or "band"
    request          \* the last request an API call was asked to build

vars == <<config, price_currency, main_pc, main_exc, mainTimer, elapsed,
          order_price, purchase_price, sells, read, updated,
          feed_pc, feedTimer, connects, subscribes, closes, backoffs, start_pc,
          currency, last_ticker, fresh, buy_order, sell_order, sell_cause,
          request>>

\* The stream the feed subscribes to carries the chosen instrument's symbol.
Symbols == {currency.symbol}

mainVars == <<main_pc, main_exc, mainTimer, elapsed, order_price,
              purchase_price, sells, read>>
feedVars == <<feed_pc, feedTimer, connects, subscribes, closes, backoffs>>

Sat(n, cap) == IF n >= cap THEN cap ELSE n + 1

\* ----------------------------------------------------------- float(ratio)
\* The binary expansion of rem/den, one bit per step, for the rounding of
\* float(): the MantissaBits significant bits are kept, the rest decides the
\* direction.  Returns the sign of float(num/den) - num/den.
RECURSIVE FloatRound(_, _, _, _)
FloatRound(rem, den, kept, last) ==
    IF rem = 0 THEN 0
    ELSE LET bit == (2 * rem) \div den
             rest == (2 * rem) % den
         IN  IF kept = 0 /\ bit = 0 THEN FloatRound(rest, den, 0, 0)
             ELSE IF kept < MantissaBits
                  THEN FloatRound(rest, den, kept + 1, bit)
             ELSE IF bit = 0 THEN -1
             ELSE IF rest # 0 THEN 1
             ELSE IF last = 1 THEN 1 ELSE -1

\* Config.sales_ratio = float(os.getenv("sales_ratio"))
FloatOf(s) == [num |-> s[1], den |-> s[2], eps |-> FloatRound(s[1], s[2], 0, 0)]


\* ------------------------------------------------------ Decimal arithmetic
\* Decimal(self.config.sales_ratio): the exact value of the float.
\* purchase_price - purchase_price * Decimal(sales_ratio)
DownPrice(P, r) == [num |-> P * (r.den - r.num), den |-> r.den, eps |-> -r.eps]
\* purchase_price + purchase_price * Decimal(sales_ratio)
UpPrice(P, r) == [num |-> P * (r.den + r.num), den |-> r.den, eps |-> r.eps]
\* price <= d and price >= d for a whole price and a Decimal d
DecLeq(p, d) == p * d.den < d.num \/ (p * d.den = d.num /\ d.eps >= 0)
DecGeq(p, d) == p * d.den > d.num \/ (p * d.den = d.num /\ d.eps <= 0)

TicksOf(seconds) == seconds * TicksPerSecond
\* elapsed saturates two ticks past the deadline
ElapsedCap == TicksOf(config.duration) + 2

\* datetime.datetime.now() >= end_timestamp
DeadlinePassed == elapsed >= TicksOf(config.duration)

\* The condition of the polling loop, for the price it read.
ExitCondition(price, P) ==
    \/ DecLeq(price, DownPrice(P, config.sales_ratio))
    \/ DecGeq(price, UpPrice(P, config.sales_ratio))
    \/ DeadlinePassed

\* The test without its zero check: any returned value opens the position.
BuySucceeded_NoZeroCheck(p) == TRUE

\* `if purchase_price := await create_order(...)`: Decimal(0) is falsy.
BuySucceeded(p) == p # 0

\* ------------------------------------------------------------ HTTP, feed
HttpStatuses == {200, 400}
\* The fills of an order confirmation: one fill, or two at any two prices.
FillSeqs == {<<p>> : p \in Prices} \cup {<<p, q>> : p, q \in Prices}
\* What the exchange answers to POST /api/v3/order.
OrderResponses ==
    {[status |-> 200, fills |-> f] : f \in FillSeqs}
      \cup {[status |-> 400, fills |-> <<>>]}

\* create_order's return value for a received response.
CreateOrderResult(resp) ==
    IF resp.status = 200 THEN Head(resp.fills) ELSE 0

\* What the feed delivers: text that is JSON or not, and for a JSON object
\* the keys it has among s and c.
Messages ==
    {[json |-> TRUE, keys |-> {"s", "c"}, s |-> sy, c |-> p] :
        sy \in Symbols, p \in Prices}
      \cup {[json |-> TRUE, keys |-> {}, s |-> "", c |-> 0]}
      \cup {[json |-> TRUE, keys |-> {"c"}, s |-> "", c |-> 1]}
      \cup {[json |-> FALSE, keys |-> {}, s |-> "", c |-> 0]}

\* A handler that subscripts message_data['c'] without the `in` test.
MessageRaises_NoInTest(m) == ~m.json \/ "c" \notin m.keys \/ "s" \notin m.keys

\* json.loads and the two subscripts raise on these.
MessageRaises(m) == ~m.json \/ ("c" \in m.keys /\ "s" \notin m.keys)

\* Config.price_currency = 0: the int the cell holds until the feed writes
\* a dict {"asset", "price"} into it.
IntZero == [dict |-> FALSE, asset |-> "", price |-> 0]
\* A write that stores the new price into the dict already there.
PriceDict_KeepAsset(s, c) ==
    [dict |-> TRUE, asset |-> price_currency.asset, price |-> c]
PriceDict(s, c) == [dict |-> TRUE, asset |-> s, price |-> c]

\* No ticker message received yet.
NoTicker == [json |-> FALSE, keys |-> {}, s |-> "", c |-> 0]

\* ------------------------------------------------------- signed requests
SideStatuses == {"BUY", "SELL"}
\* int(time.time() * 1000) at the moment of the call
Stamps == 1..MaxStamp

\* A query string "k1=v1&k2=v2" and a form body are sequences of
\* <<name, value>> pairs, the values as the text they are formatted to.
\* create_order's params_string before the optional price.
OrderParamsString(cur, side, ts) ==
    << <<"symbol", cur.symbol>>, <<"side", side>>,
       <<"type", config.order_type>>,
       <<"quantity", config.quantity_currency>>,
       <<"timestamp", ToString(ts)>>,
       <<"recvWindow", ToString(config.RECV_WINDOW)>> >>

\* create_order placing its SELL orders as limit orders.
CreateOrderRequest_SellsLimit(cur, side, price, ts) ==
    LET type == IF side = "SELL" THEN "LIMIT" ELSE config.order_type
        params == << <<"symbol", cur.symbol>>, <<"side", side>>,
                     <<"type", type>>,
                     <<"quantity", config.quantity_currency>>,
                     <<"timestamp", ToString(ts)>>,
                     <<"recvWindow", ToString(config.RECV_WINDOW)>> >>
    IN  [method |-> "POST", path |-> "/api/v3/order", price |-> price,
         signed |-> params,
         sent |-> params \o << <<"signature", "hmac">> >>]

\* create_order: `signed` is the params_string handed to get_signature,
\* `sent` the data of client.post, `price` the argument.  price is 0 for
\* the default None (`if price:` is false for both).
CreateOrderRequest(cur, side, price, ts) ==
    [method |-> "POST", path |-> "/api/v3/order", price |-> price,
     signed |-> OrderParamsString(cur, side, ts)
                    \o (IF price # 0 THEN << <<"price", ToString(price)>> >>
                                     ELSE << >>),
     sent |-> << <<"symbol", cur.symbol>>, <<"side", side>>,
                 <<"type", config.order_type>>,
                 <<"quantity", config.quantity_currency>>,
                 <<"timestamp", ToString(ts)>>,
                 <<"recvWindow", ToString(config.RECV_WINDOW)>>,
                 <<"signature", "hmac">> >>]

\* get_balance: the signed params_string and the params of client.get.
GetBalanceRequest(ts) ==
    [method |-> "GET", path |-> "/api/v3/account", price |-> 0,
     signed |-> << <<"timestamp", ToString(ts)>>,
                   <<"recvWindow", ToString(config.RECV_WINDOW)>> >>,
     sent |-> << <<"timestamp", ToString(ts)>>,
                 <<"recvWindow", ToString(config.RECV_WINDOW)>>,
                 <<"signature", "hmac">> >>]

NoRequest ==
    [method |-> "", path |-> "", price |-> 0, signed |-> << >>, sent |-> << >>]

\* What an order request names: the symbol, the order type, the quantity.
OrderOf(req) ==
    [symbol |-> req.sent[1][2], type |-> req.sent[3][2],
     quantity |-> req.sent[4][2]]
NoOrder == [symbol |-> "", type |-> "", quantity |-> ""]

\* The subscribe message load_data sends after connecting.
SubscribeMessage ==
    [method |-> "SUBSCRIBE", params |-> <<currency.name>>]

\* ------------------------------------------------------------------- Init
\* The state after Handler.start created the two tasks, for a Config read
\* from one of the environments `envs` and the instrument of one of the
\* catalog indexes `indexes` typed at the prompt.
StartWith(envs, indexes) ==
    /\ config \in envs
    /\ currency \in {data_currency[i] : i \in indexes}
    /\ last_ticker = NoTicker
    /\ fresh = FALSE
    /\ buy_order = NoOrder
    /\ sell_order = NoOrder
    /\ sell_cause = ""
    /\ request = NoRequest
    /\ price_currency = IntZero
    /\ main_pc = "startup"
    /\ main_exc = ""
    /\ mainTimer = TicksOf(StartupSeconds)
    /\ elapsed = 0
    /\ order_price = 0
    /\ purchase_price = 0
    /\ sells = 0
    /\ read = FALSE
    /\ updated = FALSE
    /\ feed_pc = "connect"
    /\ feedTimer = 0
    /\ connects = 0
    /\ subscribes = 0
    /\ closes = 0
    /\ backoffs = 0
    /\ start_pc = "await_load"

\* The .env files of the runs: market orders of one quantity.
Envs ==
    [sales_ratio : {FloatOf(s) : s \in RatioStrings},
     duration : 1..MaxDuration,
     waiting_next_purchase : 1..MaxWait,
     order_type : {"MARKET"},
     quantity_currency : {"0.001"},
     RECV_WINDOW : {5000}]

Init == StartWith(Envs, {"1"})

\* The process runs, and start is not about to end it: once load_data has
\* raised, start's `await task_load` is the next thing to run.
Running == start_pc = "await_load" /\ feed_pc # "raised"
\* Between start_timestamp and the SELL order.
InCycle == main_pc \in {"buy_post", "buy_balance", "poll_sleep"}
Sleeping == main_pc \in {"startup", "rest", "poll_sleep"}

SetMain(pc, exc, timer, el, op, pp, sl, rd) ==
    /\ main_pc' = pc
    /\ main_exc' = exc
    /\ mainTimer' = timer
    /\ elapsed' = el
    /\ order_price' = op
    /\ purchase_price' = pp
    /\ sells' = sl
    /\ read' = rd

\* ----------------------------------------------------------- trading loop
\* What a step of the trading loop leaves of the cycle's records: the SELL
\* order is built when create_order(SELL) is called, and `fresh` lasts
\* from the return of the BUY to the answer to the SELL.  The cause of a
\* SELL is the deadline when end_timestamp had passed, else the band.
CycleRecords ==
    /\ sell_cause' =
          IF main_pc' # "sell_post" THEN ""
          ELSE IF main_pc = "sell_post" THEN sell_cause
          ELSE IF DeadlinePassed THEN "deadline" ELSE "band"
    /\ IF main_pc # "sell_post" /\ main_pc' = "sell_post"
       THEN \E ts \in Stamps :
              sell_order' = OrderOf(CreateOrderRequest(currency, "SELL", 0, ts))
       ELSE sell_order' = sell_order
    /\ fresh' = (fresh /\ main_pc' \in {"poll_sleep", "sell_post"})
    /\ UNCHANGED <<currency, last_ticker, buy_order, request>>

\* The end of task_checking_prices, back in main: log and sleep the rest.
EndCycle(pp) ==
    SetMain("rest", "", TicksOf(config.waiting_next_purchase), 0, 0, pp,
            sells, read)

\* A polling loop that lets the band sell only on a price written since
\* the BUY returned.
Poll_FreshOnly(P) ==
    IF ~price_currency.dict
    THEN SetMain("raised", "TypeError", 0, 0, 0, P, sells, TRUE)
    ELSE IF DeadlinePassed \/ (fresh /\ ExitCondition(price_currency.price, P))
         THEN SetMain("sell_post", "", 0, 0, 0, P, sells + 1, TRUE)
         ELSE SetMain("poll_sleep", "", 1, elapsed, 0, P, sells, TRUE)

\* One evaluation of the polling loop's condition, and what follows it:
\* the SELL order, or the 0.2 s sleep.  price_currency is the int 0 until
\* the feed has written it, and 0["price"] raises TypeError.
Poll(P) ==
    IF ~price_currency.dict
    THEN SetMain("raised", "TypeError", 0, 0, 0, P, sells, TRUE)
    ELSE IF ExitCondition(price_currency.price, P)
         THEN SetMain("sell_post", "", 0, 0, 0, P, sells + 1, TRUE)
         ELSE SetMain("poll_sleep", "", 1, elapsed, 0, P, sells, TRUE)

\* create_order(BUY) returned `result` to task_checking_prices.
BuyReturned(result) ==
    IF BuySucceeded(result) THEN Poll(result) ELSE EndCycle(result)

\* main: the startup sleep or the rest sleep is over; the cycle task starts,
\* takes start_timestamp and posts the BUY order.
CycleStart ==
    /\ Running
    /\ main_pc \in {"startup", "rest"}
    /\ mainTimer = 0
    /\ SetMain("buy_post", "", 0, 0, 0, 0, 0, FALSE)
    /\ updated' = FALSE
    /\ \E ts \in Stamps :
          buy_order' = OrderOf(CreateOrderRequest(currency, "BUY", 0, ts))
    /\ sell_order' = NoOrder
    /\ sell_cause' = ""
    /\ fresh' = FALSE
    /\ UNCHANGED <<config, price_currency, feedVars, start_pc, currency,
                   last_ticker, request>>

\* create_order: the response to the POST arrives.
OrderResponse(resp) ==
    /\ Running
    /\ main_pc \in {"buy_post", "sell_post"}
    /\ IF resp.status = 200
       THEN SetMain(IF main_pc = "buy_post" THEN "buy_balance"
                                            ELSE "sell_balance",
                    "", 0, elapsed, CreateOrderResult(resp), purchase_price,
                    sells, read)
       ELSE IF main_pc = "buy_post"
            THEN BuyReturned(CreateOrderResult(resp))
            ELSE EndCycle(purchase_price)
    /\ CycleRecords
    /\ UNCHANGED <<config, price_currency, updated, feedVars, start_pc>>

\* get_balance, awaited inside create_order's log line: its response
\* arrives (200: the filtered balances, otherwise None), create_order
\* returns the first fill's price.
BalanceResponse(status) ==
    /\ Running
    /\ main_pc \in {"buy_balance", "sell_balance"}
    /\ IF main_pc = "buy_balance"
       THEN BuyReturned(order_price)
       ELSE EndCycle(purchase_price)
    /\ CycleRecords
    /\ UNCHANGED <<config, price_currency, updated, feedVars, start_pc>>

\* httpx raises (timeout, connection failure) instead of answering: nothing
\* catches it in get_balance, create_order, task_checking_prices or main.
HttpTransportError ==
    /\ Running
    /\ main_pc \in {"buy_post", "sell_post", "buy_balance", "sell_balance"}
    /\ SetMain("raised", "TransportError", 0, 0, order_price,
               purchase_price, sells, read)
    /\ CycleRecords
    /\ UNCHANGED <<config, price_currency, updated, feedVars, start_pc>>

\* The 0.2 s sleep of the polling loop is over.
PollWake ==
    /\ Running
    /\ main_pc = "poll_sleep"
    /\ mainTimer = 0
    /\ Poll(purchase_price)
    /\ CycleRecords
    /\ UNCHANGED <<config, price_currency, updated, feedVars, start_pc>>

\* ------------------------------------------------------------------- feed
\* websockets.connect succeeded; the subscribe message is sent.
ConnectOk ==
    /\ Running
    /\ feed_pc = "connect"
    /\ feed_pc' = "recv"
    /\ connects' = Sat(connects, MaxBackoffs + 1)
    /\ subscribes' = Sat(subscribes, MaxBackoffs + 1)
    /\ UNCHANGED <<config, price_currency, mainVars, updated, feedTimer,
                   closes, backoffs, start_pc, currency, last_ticker,
                   fresh, buy_order, sell_order, sell_cause, request>>

\* websockets.connect raises: load_data ends with the exception.
ConnectFail ==
    /\ Running
    /\ feed_pc = "connect"
    /\ feed_pc' = "raised"
    /\ UNCHANGED <<config, price_currency, mainVars, updated, feedTimer,
                   connects, subscribes, closes, backoffs, start_pc,
                   currency, last_ticker,
                   fresh, buy_order, sell_order, sell_cause, request>>

\* websocket.recv() returned a message.
RecvMessage(m) ==
    /\ Running
    /\ feed_pc = "recv"
    /\ IF MessageRaises(m)
       THEN /\ feed_pc' = "raised"
            /\ UNCHANGED <<price_currency, updated, fresh>>
       ELSE IF "c" \in m.keys
            THEN /\ price_currency' = PriceDict(m.s, m.c)
                 /\ updated' = (updated \/ InCycle)
                 /\ fresh' = (fresh \/ main_pc \in {"poll_sleep",
                                                    "sell_post"})
                 /\ UNCHANGED feed_pc
            ELSE UNCHANGED <<price_currency, updated, fresh, feed_pc>>
    /\ last_ticker' = IF {"s", "c"} \subseteq m.keys THEN m ELSE last_ticker
    /\ UNCHANGED <<config, mainVars, feedTimer, connects, subscribes, closes,
                   backoffs, start_pc, currency, buy_order, sell_order,
                   sell_cause, request>>

\* websocket.recv() raised ConnectionClosed: log, sleep 2 s.
ConnClosed ==
    /\ Running
    /\ feed_pc = "recv"
    /\ feed_pc' = "sleep"
    /\ feedTimer' = TicksOf(BackoffSeconds)
    /\ closes' = Sat(closes, MaxBackoffs + 1)
    /\ UNCHANGED <<config, price_currency, mainVars, updated, connects,
                   subscribes, backoffs, start_pc, currency, last_ticker,
                   fresh, buy_order, sell_order, sell_cause, request>>

\* Where the feed goes after the backoff sleep: the except clause is inside
\* the inner `while True`, so to recv() again, on the same connection.
AfterBackoff == "recv_closed"

\* The backoff sleep is over.  recv() on the closed connection raises
\* ConnectionClosed at once, which is caught again: the next sleep.
BackoffDone ==
    /\ Running
    /\ feed_pc = "sleep"
    /\ feedTimer = 0
    /\ backoffs' = Sat(backoffs, MaxBackoffs)
    /\ IF AfterBackoff = "recv_closed"
       THEN /\ feed_pc' = "sleep"
            /\ feedTimer' = TicksOf(BackoffSeconds)
            /\ closes' = Sat(closes, MaxBackoffs + 1)
       ELSE /\ feed_pc' = "connect"
            /\ feedTimer' = 0
            /\ UNCHANGED closes
    /\ UNCHANGED <<config, price_currency, mainVars, updated, connects,
                   subscribes, start_pc, currency, last_ticker,
                   fresh, buy_order, sell_order, sell_cause, request>>

\* ---------------------------------------------------------------- process
\* start: `await task_load` raises what load_data raised; asyncio.run
\* cancels the tasks still running and the process ends.  (task_main's own
\* exception is only retrieved by `await task_main`, which is never reached
\* while the feed runs.)
StartRaises ==
    /\ start_pc = "await_load"
    /\ feed_pc = "raised"
    /\ start_pc' = "exited"
    /\ main_pc' = IF main_pc = "raised" THEN "raised" ELSE "cancelled"
    /\ UNCHANGED <<config, price_currency, main_exc, mainTimer, elapsed,
                   order_price, purchase_price, sells, read, updated,
                   feedVars, currency, last_ticker,
                   fresh, buy_order, sell_order, sell_cause, request>>

\* ------------------------------------------------------------------- time
\* 0.2 s pass.  A task whose sleep is over runs before more time passes.
Tick ==
    /\ Running
    /\ ~(Sleeping /\ mainTimer = 0)
    /\ ~(feed_pc = "sleep" /\ feedTimer = 0)
    /\ mainTimer' = IF Sleeping THEN mainTimer - 1 ELSE mainTimer
    /\ feedTimer' = IF feed_pc = "sleep" THEN feedTimer - 1 ELSE feedTimer
    /\ elapsed' = IF InCycle
                  THEN Sat(elapsed, ElapsedCap) ELSE elapsed
    /\ UNCHANGED <<config, price_currency, main_pc, main_exc, order_price,
                   purchase_price, sells, read, updated, feed_pc,
                   connects, subscribes, closes, backoffs, start_pc,
                   currency, last_ticker,
                   fresh, buy_order, sell_order, sell_cause, request>>

Next ==
    \/ CycleStart
    \/ \E resp \in OrderResponses : OrderResponse(resp)
    \/ \E status \in HttpStatuses : BalanceResponse(status)
    \/ HttpTransportError
    \/ PollWake
    \/ ConnectOk
    \/ ConnectFail
    \/ \E m \in Messages : RecvMessage(m)
    \/ ConnClosed
    \/ BackoffDone
    \/ StartRaises
    \/ Tick

Spec == Init /\ [][Next]_vars

\* ------------------------------------------------- every catalog instrument
\* The same program started on each instrument of the catalog, with one
\* environment.
InstrumentEnvs ==
    [sales_ratio : {FloatOf(<<5, 10>>)},
     duration : {1},
     waiting_next_purchase : {1},
     order_type : {"MARKET"},
     quantity_currency : {"0.001"},
     RECV_WINDOW : {5000}]
InstrumentInit == StartWith(InstrumentEnvs, DOMAIN data_currency)
InstrumentSpec == InstrumentInit /\ [][Next]_vars

\* ------------------------------------------------------- ApiBinance calls
\* create_order and get_balance called with any arguments, under any
\* order type, quantity and receive window: the request each call builds.
ApiEnvs ==
    [sales_ratio : {FloatOf(<<5, 10>>)},
     duration : {1},
     waiting_next_purchase : {1},
     order_type : {"MARKET", "LIMIT"},
     quantity_currency : {"0.001", "1"},
     RECV_WINDOW : {5000, 60000}]

ApiInit == StartWith(ApiEnvs, DOMAIN data_currency)

ApiUnchanged ==
    UNCHANGED <<config, price_currency, mainVars, updated, feedVars, start_pc,
                currency, last_ticker, fresh, buy_order, sell_order,
                sell_cause>>

\* create_order(currency, side, price): price 0 stands for no price.
ApiCreateOrder(side, price, ts) ==
    /\ request' = CreateOrderRequest(currency, side, price, ts)
    /\ ApiUnchanged

\* get_balance(currency)
ApiGetBalance(ts) ==
    /\ request' = GetBalanceRequest(ts)
    /\ ApiUnchanged

ApiNext ==
    \/ \E side \in SideStatuses, price \in 0..MaxPrice, ts \in Stamps :
          ApiCreateOrder(side, price, ts)
    \/ \E ts \in Stamps : ApiGetBalance(ts)

ApiSpec == ApiInit /\ [][ApiNext]_vars


\* ================================================================= claims
\* The exact decimal bounds P*(1-r) and P*(1+r) for the ratio as configured
\* (the decimal string, no float in between), against a whole price p.
AtOrBelowLower(p, P) ==
    p * config.sales_ratio.den
        <= P * (config.sales_ratio.den - config.sales_ratio.num)
AtOrAboveUpper(p, P) ==
    p * config.sales_ratio.den
        >= P * (config.sales_ratio.den + config.sales_ratio.num)

\* A step that evaluates the polling loop's condition on a populated cell:
\* the first check right after create_order(BUY) returned, or a later one
\* after the 0.2 s sleep.
PollTick ==
    /\ price_currency.dict
    /\ \/ main_pc = "buy_balance" /\ main_pc' \in {"poll_sleep", "sell_post"}
       \/ /\ main_pc = "poll_sleep" /\ mainTimer = 0
          /\ main_pc' = "sell_post" \/ (main_pc' = "poll_sleep" /\ mainTimer' = 1)

\* The cycle of the trading loop is over: it returned to main, or it ended
\* with an exception, or the process ended.
CycleOver == main_pc \in {"rest", "raised", "cancelled"}

\* C1: each successful BUY is followed by exactly one SELL attempt in its
\* cycle, no SELL is issued without a successful BUY earlier in the cycle,
\* and no BUY is issued while the previous cycle is between its BUY and its
\* SELL attempt.
C1_Pairing ==
    /\ [](sells <= 1)
    /\ [](sells = 1 => purchase_price > 0)
    /\ [](CycleOver /\ purchase_price > 0 => sells = 1)
    /\ [][main_pc # "buy_post" /\ main_pc' = "buy_post"
            => (purchase_price = 0 \/ sells = 1)]_vars

\* C2: when create_order(BUY) returned the zero sentinel the cycle is over
\* at once: the polling loop is not entered, price_currency is not read and
\* no SELL is issued in that cycle.
C2_FailedBuy ==
    purchase_price = 0 =>
        /\ sells = 0
        /\ ~read
        /\ main_pc \notin {"poll_sleep", "sell_post", "sell_balance"}

\* C2's case: a BUY came back with the zero sentinel while a price was there
\* to be read, and the loop is resting.
C2_Witness ==
    /\ main_pc = "rest"
    /\ purchase_price = 0
    /\ price_currency.dict
    /\ sells = 0

\* C3: on a poll tick where the price read is at or beyond P*(1+r) or
\* P*(1-r) (bounds inclusive) the SELL is issued, once; on a poll tick where
\* the price is strictly inside the band and the deadline has not passed, no
\* SELL is issued.
C3_BandExit ==
    [][PollTick =>
        /\ (AtOrBelowLower(price_currency.price, purchase_price')
              \/ AtOrAboveUpper(price_currency.price, purchase_price')
            => main_pc' = "sell_post" /\ sells' = 1)
        /\ (~AtOrBelowLower(price_currency.price, purchase_price')
              /\ ~AtOrAboveUpper(price_currency.price, purchase_price')
              /\ ~DeadlinePassed
            => main_pc' = "poll_sleep" /\ sells' = 0)]_vars

\* A step of the polling loop's condition in a cycle during which the feed
\* wrote nothing, whatever the cell holds.
StalledCheck ==
    /\ ~updated
    /\ \/ main_pc = "buy_balance" /\ main_pc' \notin {"buy_balance", "cancelled"}
                                 /\ main_exc' # "TransportError"
       \/ /\ main_pc = "poll_sleep" /\ mainTimer = 0
          /\ main_pc' \notin {"poll_sleep", "cancelled"} \/ mainTimer' = 1

\* C4: in a cycle during which the feed never updates price_currency, the
\* SELL is issued once, at the first poll tick at or after the deadline:
\* not before it, at most one tick after it; until then every check leaves
\* the monitor polling, and the check at or after the deadline issues it.
C4_DeadlineExit ==
    [][StalledCheck =>
        /\ (main_pc' = "sell_post" =>
                /\ elapsed >= TicksOf(config.duration)
                /\ elapsed <= TicksOf(config.duration) + 1
                /\ sells' = 1)
        /\ main_pc' \in {"poll_sleep", "sell_post"}
        /\ (DeadlinePassed => main_pc' = "sell_post")]_vars

\* C5: when a backoff sleep is over the feed is in Connecting again, and
\* every completed backoff is followed by a new connection and a new
\* subscribe message: N backoffs, N reconnects.
C5_Reconnect ==
    /\ [][backoffs' # backoffs => feed_pc' = "connect"]_vars
    /\ [](feed_pc = "recv" => connects = backoffs + 1 /\ subscribes = connects)

\* C6: load_data never returns and never raises, whatever the feed events;
\* the feed stays in its loop (Connecting, Subscribed/Streaming, or the
\* backoff wait between them).
C6_FeedNeverEnds == feed_pc \in {"connect", "recv", "sleep"}

\* C7: a create_order call whose POST fails with a transport error returns
\* the zero sentinel and does not raise: the trading loop is not ended by it.
C7_TransportNotFatal ==
    ~(main_pc = "raised" /\ main_exc = "TransportError" /\ order_price = 0)

\* C8: for a received order response create_order has two outcomes: on 200
\* it returns the first fill's price, on anything else the zero sentinel,
\* with no balance lookup.  (For a BUY the returned value is purchase_price.)
C8_CreateOrderResult ==
    /\ [][main_pc = "buy_post" /\ main_pc' \in {"rest", "poll_sleep", "sell_post"}
            => purchase_price' = 0 /\ main_pc' = "rest"]_vars
    /\ [][main_pc = "buy_balance" /\ main_pc' \notin {"buy_balance", "cancelled"}
            => purchase_price' = order_price /\ main_exc' # "TransportError"]_vars
    /\ [][main_pc = "sell_balance" /\ main_pc' \notin {"sell_balance", "cancelled"}
            => main_pc' = "rest"]_vars

\* C9: once the order was accepted with 200 (its first fill's price is
\* held), a failure of the balance lookup, a non-200 answer or a transport
\* error, does not end create_order with an exception.
C9_BalanceHarmless == ~(main_pc = "raised" /\ order_price > 0)

\* C10: from the rest that follows the end of a cycle the scheduler goes on
\* to the BUY of the next cycle and nowhere else, and not before the rest
\* interval has elapsed.
C10_SchedulerKeepsGoing ==
    [][main_pc = "rest"
        => \/ main_pc' = "rest"
           \/ main_pc' = "buy_post" /\ mainTimer = 0]_vars


C12_AtomicCell ==
    [][PollTick =>
        /\ price_currency.asset = last_ticker.s
        /\ price_currency.price = last_ticker.c
        /\ (main_pc' = "sell_post") =
             (\/ DecLeq(last_ticker.c,
                        DownPrice(purchase_price', config.sales_ratio))
              \/ DecGeq(last_ticker.c,
                        UpPrice(purchase_price', config.sales_ratio))
              \/ DeadlinePassed)]_vars

\* The monitor polled while the feed was writing during the same cycle.
C12_Witness ==
    /\ main_pc = "poll_sleep" /\ read /\ fresh
    /\ price_currency.price = last_ticker.c
    /\ purchase_price > 0

\* C14: for every buy price P > 0 and every ratio 0 < r < 1 the bounds the
\* monitor computed are lowerBound = P*(1-r) and upperBound = P*(1+r), with
\* lowerBound < P < upperBound and lowerBound > 0.
C14_BandOrdering ==
    purchase_price > 0 =>
        LET P == purchase_price
            r == config.sales_ratio
            lowerBound == DownPrice(P, r)
            upperBound == UpPrice(P, r)
        IN  /\ lowerBound.num = P * (r.den - r.num)
            /\ lowerBound.den = r.den /\ lowerBound.eps = 0
            /\ upperBound.num = P * (r.den + r.num)
            /\ upperBound.den = r.den /\ upperBound.eps = 0
            /\ ~DecLeq(P, lowerBound)
            /\ ~DecGeq(P, upperBound)
            /\ ~DecGeq(0, lowerBound)

\* C15: the bounds are exactly P*(1-r) and P*(1+r) for the ratio as
\* configured, no float rounding in them, so that a feed price exactly on
\* the upper bound P*(1+r) satisfies price >= upperBound (and one exactly on
\* the lower bound satisfies price <= lowerBound).
C15_ExactBounds ==
    purchase_price > 0 =>
        /\ DownPrice(purchase_price, config.sales_ratio) =
              [num |-> purchase_price
                         * (config.sales_ratio.den - config.sales_ratio.num),
               den |-> config.sales_ratio.den, eps |-> 0]
        /\ UpPrice(purchase_price, config.sales_ratio) =
              [num |-> purchase_price
                         * (config.sales_ratio.den + config.sales_ratio.num),
               den |-> config.sales_ratio.den, eps |-> 0]
        /\ \A p \in Prices :
              /\ p * config.sales_ratio.den
                    = purchase_price
                        * (config.sales_ratio.den + config.sales_ratio.num)
                 => DecGeq(p, UpPrice(purchase_price, config.sales_ratio))
              /\ p * config.sales_ratio.den
                    = purchase_price
                        * (config.sales_ratio.den - config.sales_ratio.num)
                 => DecLeq(p, DownPrice(purchase_price, config.sales_ratio))

\* C13: for every createOrder and getBalance call, the parameters submitted
\* without the signature are exactly the parameters of the signed string
\* (names, values, order); a price passed to createOrder is in the signed
\* string and in the submitted body; the signature is the last submitted
\* parameter and no part of the signed string.
C13_SignedConsistency ==
    request # NoRequest =>
        LET n == Len(request.sent)
        IN  /\ SubSeq(request.sent, 1, n - 1) = request.signed
            /\ request.sent[n][1] = "signature"
            /\ \A i \in 1..Len(request.signed) :
                  request.signed[i][1] # "signature"
            /\ request.price # 0 =>
                  /\ \E i \in 1..Len(request.signed) :
                        request.signed[i] = <<"price", ToString(request.price)>>
                  /\ \E i \in 1..n :
                        request.sent[i] = <<"price", ToString(request.price)>>

\* C16: once a BUY has succeeded, nothing the feed does stops or cancels
\* the monitor before the cycle's SELL: the return of a successful BUY is
\* followed by the first check (not by a failure over the feed's cell), and
\* from the polling loop the monitor only goes on polling or to the SELL.
C16_SellFollowsBuy ==
    /\ [][main_pc = "buy_balance" /\ main_pc' = "raised"
            => main_exc' = "TransportError"]_vars
    /\ [][main_pc = "buy_balance" => main_pc' # "cancelled"]_vars
    /\ [][main_pc = "poll_sleep"
            => main_pc' \in {"poll_sleep", "sell_post"}]_vars

\* C17: whenever the polling loop has read the cell, the cell holds a record
\* the feed wrote, and no read after a successful BUY fails.
C17_PopulatedBeforeUse ==
    /\ read => price_currency.dict /\ last_ticker # NoTicker
    /\ main_exc # "TypeError"

\* C18: once the trading loop task has ended with an error, Handler.start
\* ends: the process takes no further step with only the feed alive.
C18_FailureEndsStart ==
    [][main_pc = "raised" /\ start_pc = "await_load"
         => start_pc' = "exited"]_vars

\* The price p lies outside the band of the buy price P, on neither bound.
BeyondBand(p, P) ==
    \/ p * config.sales_ratio.den
          < P * (config.sales_ratio.den - config.sales_ratio.num)
    \/ p * config.sales_ratio.den
          > P * (config.sales_ratio.den + config.sales_ratio.num)

\* A step that issues the SELL order because of the band condition.
BandSell ==
    main_pc # "sell_post" /\ main_pc' = "sell_post" /\ sell_cause' = "band"

C20_SameInstrument ==
    /\ sell_order # NoOrder => sell_order = buy_order
    /\ buy_order # NoOrder =>
          \E i \in DOMAIN data_currency :
              /\ SubscribeMessage.params = <<data_currency[i].name>>
              /\ buy_order.symbol = data_currency[i].symbol
              /\ buy_order.type = config.order_type
              /\ buy_order.quantity = config.quantity_currency

\* The SELL of a cycle on the second instrument of the catalog is posted.
C20_Witness ==
    /\ main_pc = "sell_post"
    /\ currency = data_currency["2"]
    /\ sell_order # NoOrder /\ buy_order # NoOrder
====
